---- MODULE Spec2Model ----
(***************************************************************************)
(* autoAnswer (frontend/lib/tools/auto.ts): one chat turn of the search-   *)
(* augmented assistant.  The turn streams a model response, branches on    *)
(* the kind of every streamed event, and then runs the answer / related /  *)
(* images / videos / persistence steps.                                    *)
(*                                                                         *)
(* The collaborators (streamText and its fullStream, the tool executors,   *)
(* directlyAnswer, getRelatedQuestions, the search engine, streamResponse, *)
(* incSearchCount, saveMessages) are opaque: each is modelled by its call  *)
(* signature only -- it is called, it may invoke the callbacks it was      *)
(* handed, and it returns or throws.  streamResponse(payload, onStream)    *)
(* delivers the payload to onStream in one invocation, or throws.          *)
(* logError only logs.                                                     *)
(***************************************************************************)
EXTENDS Integers, Sequences, FiniteSets, TLC

\* ---------------------------------------------------------------- bounds
MaxEvents == 2      \* events the model emits into fullStream in one turn
MaxChunks == 1      \* chunks directlyAnswer / getRelatedQuestions deliver
MaxQueue == 1       \* events the model may run ahead of the reader

\* ------------------------------------------------------- input alphabets
Query      == "q0"                       \* content of the last user message
Questions  == {"q1"}                     \* 'question' arguments the model writes
TextDeltas == {<<>>, <<"a">>, <<"b">>}   \* textDelta strings, as character sequences
Chunks     == {<<"x">>}                  \* chunks of the second-pass answer / related
CallerSources == {"ALL"}                  \* SearchCategory value the caller passes (the default)
WEB_PAGE   == "WEB_PAGE"

VARIABLES
    pc,             \* position of autoAnswer's body
    source0,        \* the 'source' argument as the caller passed it
    source,         \* the 'source' parameter (a mutable binding, line 28)
    texts, images, videos,                     \* lines 35-37
    hasAnswer, fullAnswer, rewriteQuery,       \* lines 73-75
    toolCallCount, hasError,                   \* lines 76-77
    fullRelated,                               \* line 129
    produced,       \* events the model has emitted so far
    closed,         \* fullStream has been closed by its producer
    queue,          \* events of fullStream not yet read by the for-await loop
    executing,      \* tool executions started and not finished
    searchSources,  \* the 'source' values passed to searchRelevantContent
    imgState, vidState,   \* imageFetchPromise / videoFetchPromise
    settled,        \* order in which the two search promises settled
    dChunks, rChunks,     \* chunks delivered by the running helper
    saved,          \* arguments of the saveMessages calls
    log             \* history: callback invocations and collaborator calls

vars == <<pc, source0, source, texts, images, videos, hasAnswer, fullAnswer,
          rewriteQuery, toolCallCount, hasError, fullRelated, produced,
          closed, queue, executing, searchSources, imgState, vidState,
          settled, dChunks, rChunks, saved, log>>

\* One entry of the history.  k is the kind; v a string (status text, or the
\* name of the collaborator called); arg a string argument; text a chunk;
\* list a list of source ids; clear the payload's clear flag; question the
\* args.question of an event read from the stream.
Entry(k, v, arg, text, list, clear) ==
    [k |-> k, v |-> v, arg |-> arg, text |-> text, list |-> list, clear |-> clear,
     question |-> ""]

\* onStream?.(JSON.stringify({status: s}))  and  {status: s, clear: true}
StatusPayload(s, clear) == Entry("status", s, "", <<>>, <<>>, clear)
\* onStream?.(JSON.stringify({answer: t}))
AnswerPayload(t)  == Entry("answer", "", "", t, <<>>, FALSE)
\* onStream?.(JSON.stringify({related: t}))
RelatedPayload(t) == Entry("related", "", "", t, <<>>, FALSE)
\* onStream?.(JSON.stringify({error: e}))
ErrorPayload      == Entry("error", "", "", <<>>, <<>>, FALSE)
\* onStream?.(null, true)
DoneSignal        == Entry("done", "", "", <<>>, <<>>, FALSE)
\* streamResponse({sources: texts, status: 'Thinking ...'}, onStream)
SourcesPayload(l) == Entry("sources", "Thinking ...", "", <<>>, l, FALSE)
\* streamResponse({images: images}, onStream)
ImagesPayload(l)  == Entry("images", "", "", <<>>, l, FALSE)
\* streamResponse({videos: videos}, onStream)
VideosPayload(l)  == Entry("videos", "", "", <<>>, l, FALSE)
\* a call of collaborator `name`, with the arguments the properties read
Call(name, a, l)  == Entry("call", name, a, <<>>, l, FALSE)
\* the awaited collaborator `name` returned (for fullStream: the loop ended)
Ret(name)         == Entry("ret", name, "", <<>>, <<>>, FALSE)
\* the for-await loop read event d of fullStream
Read(d)           ==
    [Entry("event", d.type, d.toolName, d.textDelta, <<d.id>>, FALSE)
        EXCEPT !.question = d.question]

CallbackKinds == {"status", "answer", "related", "error", "done",
                  "sources", "images", "videos"}

\* events of result.fullStream
Event(type, toolName, textDelta, question, id) ==
    [type |-> type, toolName |-> toolName, textDelta |-> textDelta,
     question |-> question, id |-> id]

Init ==
    /\ pc = "start"
    /\ source0 \in CallerSources
    /\ source = source0
    /\ texts = <<>> /\ images = <<>> /\ videos = <<>>
    /\ hasAnswer = FALSE /\ fullAnswer = <<>> /\ rewriteQuery = Query
    /\ toolCallCount = 0 /\ hasError = FALSE /\ fullRelated = <<>>
    /\ produced = 0 /\ closed = FALSE
    /\ queue = <<>> /\ executing = {} /\ searchSources = {}
    /\ imgState = "none" /\ vidState = "none" /\ settled = <<>>
    /\ dChunks = 0 /\ rChunks = 0
    /\ saved = <<>>
    /\ log = <<>>

\* ------------------------------------------------- lines 30-71: streamText
\* await streamText({...}): the request is made; it returns the result whose
\* fullStream is read below, or throws into the top-level catch.
StreamTextCall ==
    /\ pc = "start"
    /\ \E ok \in BOOLEAN : pc' = IF ok THEN "stream" ELSE "catch"
    /\ log' = Append(log, Call("streamText", "", <<>>))
    /\ UNCHANGED <<source0, source, texts, images, videos, hasAnswer, fullAnswer,
                   rewriteQuery, toolCallCount, hasError, fullRelated, produced,
                   closed, queue, executing, searchSources, imgState, vidState,
                   settled, dChunks, rChunks, saved>>

\* ------------------------------------- the producer side of result.fullStream
producerVars == <<produced, closed, queue, executing, searchSources>>
bodyVars == <<pc, source, texts, images, videos, hasAnswer, fullAnswer,
              rewriteQuery, toolCallCount, hasError, fullRelated>>
laterVars == <<source0, imgState, vidState, settled, dChunks, rChunks, saved>>

CanEmit == pc = "stream" /\ ~closed /\ produced < MaxEvents /\ Len(queue) < MaxQueue

\* the model emits a text delta (possibly the empty string)
ModelEmitsText ==
    /\ CanEmit
    /\ \E t \in TextDeltas :
          queue' = Append(queue, Event("text-delta", "", t, "", 0))
    /\ produced' = produced + 1
    /\ UNCHANGED <<closed, executing, searchSources, log>>
    /\ UNCHANGED bodyVars /\ UNCHANGED laterVars

\* line 59: execute: async ({ question }) =>
\*              searchRelevantContent(question, userId, source, onStream)
\* The closure reads the binding `source` when the execution starts.
getInformationExecute(question) ==
    searchSources' = searchSources \cup {source}

\* the model emits a tool call; the SDK enqueues the 'tool-call' event and
\* starts the tool's execute function (lines 59 and 66-68)
ModelCallsGetInformation ==
    /\ CanEmit
    /\ \E q \in Questions :
          /\ queue' = Append(queue, Event("tool-call", "getInformation", <<>>, q, produced + 1))
          /\ executing' = executing \cup
                 {Event("tool-result", "getInformation", <<>>, q, produced + 1)}
          /\ getInformationExecute(q)
    /\ produced' = produced + 1
    /\ UNCHANGED <<closed, log>>
    /\ UNCHANGED bodyVars /\ UNCHANGED laterVars

ModelCallsAccessWebPage ==
    /\ CanEmit
    /\ queue' = Append(queue, Event("tool-call", "accessWebPage", <<>>, "", produced + 1))
    /\ executing' = executing \cup
           {Event("tool-result", "accessWebPage", <<>>, "", produced + 1)}
    /\ produced' = produced + 1
    /\ UNCHANGED <<closed, searchSources, log>>
    /\ UNCHANGED bodyVars /\ UNCHANGED laterVars

\* the provider reports an error: an 'error' event is enqueued
ModelEmitsError ==
    /\ CanEmit
    /\ queue' = Append(queue, Event("error", "", <<>>, "", 0))
    /\ produced' = produced + 1
    /\ UNCHANGED <<closed, executing, searchSources, log>>
    /\ UNCHANGED bodyVars /\ UNCHANGED laterVars

\* a tool execution finishes: its 'tool-result' is enqueued, or an 'error'
\* event when the execute function rejected
ToolExecutionFinishes ==
    /\ pc = "stream"
    /\ \E e \in executing :
          /\ executing' = executing \ {e}
          /\ \E ok \in BOOLEAN :
                queue' = Append(queue, IF ok THEN e ELSE Event("error", "", <<>>, "", 0))
    /\ UNCHANGED <<produced, closed, searchSources, log>>
    /\ UNCHANGED bodyVars /\ UNCHANGED laterVars

\* the model's response has ended and no execution is pending: the SDK
\* enqueues a 'finish' event and closes the stream
StreamCloses ==
    /\ pc = "stream" /\ executing = {} /\ ~closed
    /\ queue' = Append(queue, Event("finish", "", <<>>, "", 0))
    /\ closed' = TRUE
    /\ UNCHANGED <<produced, executing, searchSources, log>>
    /\ UNCHANGED bodyVars /\ UNCHANGED laterVars

\* ------------------------------ lines 78-122: for await (delta of fullStream)
\* result of a tool execution: its texts and images, named after the call
ResultTexts(d)  == <<d.id>>
ResultImages(d) == <<d.id>>

\* a variant that never sets hasAnswer
OnTextDeltaStatusEveryTime(d) ==
    /\ IF d.textDelta # <<>>
          THEN /\ fullAnswer' = fullAnswer \o d.textDelta
               /\ log' = log \o <<Read(d), StatusPayload("Answering ...", FALSE),
                                  AnswerPayload(d.textDelta)>>
          ELSE /\ log' = Append(log, Read(d))
               /\ UNCHANGED fullAnswer
    /\ UNCHANGED <<source, texts, images, hasAnswer, rewriteQuery, toolCallCount, hasError>>

\* lines 80-94: case 'text-delta'
OnTextDelta(d) ==
    /\ IF d.textDelta # <<>>
          THEN /\ hasAnswer' = TRUE
               /\ fullAnswer' = fullAnswer \o d.textDelta
               /\ log' = log \o <<Read(d)>>
                             \o (IF ~hasAnswer THEN <<StatusPayload("Answering ...", FALSE)>>
                                               ELSE <<>>)
                             \o <<AnswerPayload(d.textDelta)>>
          ELSE /\ log' = Append(log, Read(d))
               /\ UNCHANGED <<hasAnswer, fullAnswer>>
    /\ UNCHANGED <<source, texts, images, rewriteQuery, toolCallCount, hasError>>

\* lines 95-102: case 'tool-call'
OnToolCall(d) ==
    /\ toolCallCount' = toolCallCount + 1
    /\ log' = log \o <<Read(d), StatusPayload("Searching ...", FALSE)>>
    /\ UNCHANGED <<source, texts, images, hasAnswer, fullAnswer, rewriteQuery, hasError>>

\* a variant that forgets the texts of an accessWebPage result
OnToolResultDropsPageTexts(d) ==
    /\ IF d.toolName = "getInformation"
          THEN /\ texts' = texts \o ResultTexts(d)
               /\ images' = images \o ResultImages(d)
               /\ rewriteQuery' = d.question
               /\ UNCHANGED source
          ELSE IF d.toolName = "accessWebPage"
          THEN /\ source' = WEB_PAGE
               /\ UNCHANGED <<texts, images, rewriteQuery>>
          ELSE UNCHANGED <<texts, images, rewriteQuery, source>>
    /\ log' = Append(log, Read(d))
    /\ UNCHANGED <<hasAnswer, fullAnswer, toolCallCount, hasError>>

\* lines 103-113: case 'tool-result'
OnToolResult(d) ==
    /\ IF d.toolName = "getInformation"
          THEN /\ texts' = texts \o ResultTexts(d)
               /\ images' = images \o ResultImages(d)
               /\ rewriteQuery' = d.question
               /\ UNCHANGED source
          ELSE IF d.toolName = "accessWebPage"
          THEN /\ texts' = texts \o ResultTexts(d)
               /\ source' = WEB_PAGE
               /\ UNCHANGED <<images, rewriteQuery>>
          ELSE UNCHANGED <<texts, images, rewriteQuery, source>>
    /\ log' = Append(log, Read(d))
    /\ UNCHANGED <<hasAnswer, fullAnswer, toolCallCount, hasError>>

\* lines 114-120: case 'error'
OnError(d) ==
    /\ hasError' = TRUE
    /\ log' = log \o <<Read(d), ErrorPayload, DoneSignal, Call("logError", "event", <<>>)>>
    /\ UNCHANGED <<source, texts, images, hasAnswer, fullAnswer, rewriteQuery, toolCallCount>>

\* any other kind of event: no case of the switch
OnOther(d) ==
    /\ log' = Append(log, Read(d))
    /\ UNCHANGED <<source, texts, images, hasAnswer, fullAnswer, rewriteQuery,
                   toolCallCount, hasError>>

\* one iteration of the loop: the switch on delta.type
ConsumeEvent ==
    /\ pc = "stream" /\ queue # <<>>
    /\ LET d == Head(queue) IN
          CASE d.type = "text-delta"  -> OnTextDelta(d)
            [] d.type = "tool-call"   -> OnToolCall(d)
            [] d.type = "tool-result" -> OnToolResult(d)
            [] d.type = "error"       -> OnError(d)
            [] OTHER                  -> OnOther(d)
    /\ queue' = Tail(queue)
    /\ UNCHANGED <<pc, videos, fullRelated, produced, closed, executing, searchSources>>
    /\ UNCHANGED laterVars

\* the loop ends when the stream is closed and drained
StreamEnds ==
    /\ pc = "stream" /\ closed /\ queue = <<>>
    /\ pc' = "afterStream"
    /\ log' = Append(log, Ret("fullStream"))
    /\ UNCHANGED <<source, texts, images, videos, hasAnswer, fullAnswer, rewriteQuery,
                   toolCallCount, hasError, fullRelated>>
    /\ UNCHANGED producerVars /\ UNCHANGED laterVars

\* reading fullStream throws: control passes to the top-level catch
StreamThrows ==
    /\ pc = "stream"
    /\ pc' = "catch"
    /\ UNCHANGED <<source, texts, images, videos, hasAnswer, fullAnswer, rewriteQuery,
                   toolCallCount, hasError, fullRelated, log>>
    /\ UNCHANGED producerVars /\ UNCHANGED laterVars

\* ------------------------------------------------ lines 124-127: 'Thinking'
streamVars == <<source, texts, images, hasAnswer, toolCallCount>>

\* a variant that keeps the rewritten query after several tool calls
AfterStreamKeepsRewrite ==
    /\ pc = "afterStream"
    /\ IF toolCallCount > 1
          THEN \E ok \in BOOLEAN :
                  IF ok THEN /\ log' = Append(log, SourcesPayload(texts))
                             /\ pc' = "branch"
                        ELSE /\ pc' = "catch"
                             /\ UNCHANGED log
          ELSE /\ pc' = "branch"
               /\ UNCHANGED log
    /\ UNCHANGED <<videos, fullAnswer, rewriteQuery, hasError, fullRelated>>
    /\ UNCHANGED streamVars /\ UNCHANGED producerVars /\ UNCHANGED laterVars

AfterStream ==
    /\ pc = "afterStream"
    /\ IF toolCallCount > 1
          THEN /\ rewriteQuery' = Query
               /\ \E ok \in BOOLEAN :
                     IF ok THEN /\ log' = Append(log, SourcesPayload(texts))
                                /\ pc' = "branch"
                           ELSE /\ pc' = "catch"
                                /\ UNCHANGED log
          ELSE /\ pc' = "branch"
               /\ UNCHANGED <<rewriteQuery, log>>
    /\ UNCHANGED <<videos, fullAnswer, hasError, fullRelated>>
    /\ UNCHANGED streamVars /\ UNCHANGED producerVars /\ UNCHANGED laterVars

\* -------------------------------------- lines 129-141: start the two searches
\* getSearchEngine({categories: [IMAGES]}).search(rewriteQuery) and
\* getSearchEngine({categories: [VIDEOS]}).search(rewriteQuery): each call
\* returns a pending promise or throws synchronously.
\* a variant that does not reset fullAnswer before the second pass
StartSearchesKeepsFirstPass ==
    /\ pc = "branch" /\ toolCallCount > 0
    /\ log' = log \o <<Call("imageSearch", rewriteQuery, <<>>),
                       Call("videoSearch", rewriteQuery, <<>>)>>
    /\ imgState' = "pending" /\ vidState' = "pending"
    /\ pc' = "clear"
    /\ UNCHANGED <<videos, fullAnswer, rewriteQuery, hasError, fullRelated>>
    /\ UNCHANGED <<source0, settled, dChunks, rChunks, saved>>
    /\ UNCHANGED streamVars /\ UNCHANGED producerVars

StartSearches ==
    /\ pc = "branch" /\ toolCallCount > 0
    /\ \E outcome \in {"started", "imageThrows", "videoThrows"} :
          /\ log' = log \o <<Call("imageSearch", rewriteQuery, <<>>)>>
                        \o (IF outcome = "imageThrows" THEN <<>>
                            ELSE <<Call("videoSearch", rewriteQuery, <<>>)>>)
          /\ imgState' = IF outcome = "imageThrows" THEN "none" ELSE "pending"
          /\ vidState' = IF outcome = "started" THEN "pending" ELSE "none"
          /\ fullAnswer' = IF outcome = "started" THEN <<>> ELSE fullAnswer
          /\ pc' = IF outcome = "started" THEN "clear" ELSE "catch"
    /\ UNCHANGED <<videos, rewriteQuery, hasError, fullRelated>>
    /\ UNCHANGED <<source0, settled, dChunks, rChunks, saved>>
    /\ UNCHANGED streamVars /\ UNCHANGED producerVars

\* line 180: toolCallCount = 0, the else branch
NoToolBranch ==
    /\ pc = "branch" /\ ~(toolCallCount > 0)
    /\ pc' = "relatedStatus"
    /\ UNCHANGED <<videos, fullAnswer, rewriteQuery, hasError, fullRelated, log>>
    /\ UNCHANGED streamVars /\ UNCHANGED producerVars /\ UNCHANGED laterVars

\* the search promises settle on their own, in either order, while the
\* invocation runs (a settlement after it ended is observed by nobody)
SearchImages == << [id |-> 101, https |-> TRUE], [id |-> 102, https |-> FALSE] >>
SearchVideos == << 201, 202, 203, 204, 205, 206, 207, 208, 209 >>
MaxVideos == 8

ImageSearchSettles ==
    /\ imgState = "pending" /\ pc \notin {"catch", "returned"}
    /\ \E r \in {"resolved", "rejected"} : imgState' = r
    /\ settled' = Append(settled, "image")
    /\ UNCHANGED <<source0, vidState, dChunks, rChunks, saved, log>>
    /\ UNCHANGED bodyVars /\ UNCHANGED producerVars

VideoSearchSettles ==
    /\ vidState = "pending" /\ pc \notin {"catch", "returned"}
    /\ \E r \in {"resolved", "rejected"} : vidState' = r
    /\ settled' = Append(settled, "video")
    /\ UNCHANGED <<source0, imgState, dChunks, rChunks, saved, log>>
    /\ UNCHANGED bodyVars /\ UNCHANGED producerVars

\* ------------------------------------ lines 142-165: the second-pass answer
\* a variant that calls directlyAnswer without sending the clear payload
CallDirectlyAnswerWithoutClear ==
    /\ pc = "clear"
    /\ log' = Append(log, Call("directlyAnswer", source, texts))
    /\ pc' = "answering"
    /\ UNCHANGED <<videos, fullAnswer, rewriteQuery, hasError, fullRelated>>
    /\ UNCHANGED streamVars /\ UNCHANGED producerVars /\ UNCHANGED laterVars

ClearAndCallDirectlyAnswer ==
    /\ pc = "clear"
    /\ \E ok \in BOOLEAN :
          IF ok THEN /\ log' = log \o <<StatusPayload("Answering ...", TRUE),
                                        Call("directlyAnswer", source, texts)>>
                     /\ pc' = "answering"
                ELSE /\ pc' = "catch"
                     /\ UNCHANGED log
    /\ UNCHANGED <<videos, fullAnswer, rewriteQuery, hasError, fullRelated>>
    /\ UNCHANGED streamVars /\ UNCHANGED producerVars /\ UNCHANGED laterVars

\* lines 151-154: (msg) => { fullAnswer += msg; onStream(answer: msg) }
DirectlyAnswerChunk ==
    /\ pc = "answering" /\ dChunks < MaxChunks
    /\ \E c \in Chunks :
          /\ fullAnswer' = fullAnswer \o c
          /\ log' = Append(log, AnswerPayload(c))
    /\ dChunks' = dChunks + 1
    /\ UNCHANGED <<pc, videos, rewriteQuery, hasError, fullRelated>>
    /\ UNCHANGED <<source0, imgState, vidState, settled, rChunks, saved>>
    /\ UNCHANGED streamVars /\ UNCHANGED producerVars

\* a variant whose error callback does not send the completion signal
DirectlyAnswerErrorNoSignal ==
    /\ pc = "answering"
    /\ hasError' = TRUE
    /\ log' = Append(log, ErrorPayload)
    /\ pc' = "answerFailed"
    /\ UNCHANGED <<videos, fullAnswer, rewriteQuery, fullRelated>>
    /\ UNCHANGED streamVars /\ UNCHANGED producerVars /\ UNCHANGED laterVars

\* lines 155-160: (errorMsg) => { hasError = true; onStream(error); onStream(null, true) }
\* directlyAnswer reports a failure once, as the last thing it tells its caller.
DirectlyAnswerError ==
    /\ pc = "answering"
    /\ hasError' = TRUE
    /\ log' = log \o <<ErrorPayload, DoneSignal>>
    /\ pc' = "answerFailed"
    /\ UNCHANGED <<videos, fullAnswer, rewriteQuery, fullRelated>>
    /\ UNCHANGED streamVars /\ UNCHANGED producerVars /\ UNCHANGED laterVars

\* directlyAnswer returns; lines 163-165: if (hasError) return
DirectlyAnswerReturns ==
    /\ pc \in {"answering", "answerFailed"}
    /\ log' = Append(log, Ret("directlyAnswer"))
    /\ pc' = IF hasError THEN "returned" ELSE "relatedStatus"
    /\ UNCHANGED <<videos, fullAnswer, rewriteQuery, hasError, fullRelated>>
    /\ UNCHANGED streamVars /\ UNCHANGED producerVars /\ UNCHANGED laterVars

DirectlyAnswerThrows ==
    /\ pc \in {"answering", "answerFailed"}
    /\ pc' = "catch"
    /\ UNCHANGED <<videos, fullAnswer, rewriteQuery, hasError, fullRelated, log>>
    /\ UNCHANGED streamVars /\ UNCHANGED producerVars /\ UNCHANGED laterVars

\* ------------------- lines 167-171 and 181-185: related questions (both branches)
RelatedStatusAndCall ==
    /\ pc = "relatedStatus"
    /\ \E ok \in BOOLEAN :
          IF ok THEN /\ log' = log \o <<StatusPayload("Generating related questions ...", FALSE),
                                        Call("getRelatedQuestions", Query, texts)>>
                     /\ pc' = "relating"
                ELSE /\ pc' = "catch"
                     /\ UNCHANGED log
    /\ UNCHANGED <<videos, fullAnswer, rewriteQuery, hasError, fullRelated>>
    /\ UNCHANGED streamVars /\ UNCHANGED producerVars /\ UNCHANGED laterVars

\* (msg) => { fullRelated += msg; onStream(related: msg) }
RelatedChunk ==
    /\ pc = "relating" /\ rChunks < MaxChunks
    /\ \E c \in Chunks :
          /\ fullRelated' = fullRelated \o c
          /\ log' = Append(log, RelatedPayload(c))
    /\ rChunks' = rChunks + 1
    /\ UNCHANGED <<pc, videos, fullAnswer, rewriteQuery, hasError>>
    /\ UNCHANGED <<source0, imgState, vidState, settled, dChunks, saved>>
    /\ UNCHANGED streamVars /\ UNCHANGED producerVars

\* a variant that skips the images and videos steps
RelatedReturnsSkipsMedia ==
    /\ pc = "relating"
    /\ log' = Append(log, Ret("getRelatedQuestions"))
    /\ pc' = "persist"
    /\ UNCHANGED <<videos, fullAnswer, rewriteQuery, hasError, fullRelated>>
    /\ UNCHANGED streamVars /\ UNCHANGED producerVars /\ UNCHANGED laterVars

RelatedReturns ==
    /\ pc = "relating"
    /\ log' = Append(log, Ret("getRelatedQuestions"))
    /\ pc' = IF toolCallCount > 0 THEN "awaitImages" ELSE "persist"
    /\ UNCHANGED <<videos, fullAnswer, rewriteQuery, hasError, fullRelated>>
    /\ UNCHANGED streamVars /\ UNCHANGED producerVars /\ UNCHANGED laterVars

RelatedThrows ==
    /\ pc = "relating"
    /\ pc' = "catch"
    /\ UNCHANGED <<videos, fullAnswer, rewriteQuery, hasError, fullRelated, log>>
    /\ UNCHANGED streamVars /\ UNCHANGED producerVars /\ UNCHANGED laterVars

\* ------------------------------------ lines 173-179: images and videos payloads
\* .then((results) => results.images.filter((img) => img.image.startsWith('https')))
HttpsImages(results) ==
    LET kept == SelectSeq(results, LAMBDA img : img.https)
    IN  [i \in 1..Len(kept) |-> kept[i].id]

\* fetchedVideos.videos.slice(0, 8)
FirstVideos(results) ==
    SubSeq(results, 1, IF Len(results) < MaxVideos THEN Len(results) ELSE MaxVideos)

\* a variant that waits for both searches and streams their payloads in the
\* order in which they completed
AwaitImagesInCompletionOrder ==
    /\ pc = "awaitImages" /\ imgState = "resolved" /\ vidState = "resolved"
    /\ images' = images \o HttpsImages(SearchImages)
    /\ videos' = FirstVideos(SearchVideos)
    /\ log' = log \o (IF settled[1] = "video"
                         THEN <<VideosPayload(videos'), ImagesPayload(images')>>
                         ELSE <<ImagesPayload(images'), VideosPayload(videos')>>)
    /\ pc' = "persist"
    /\ UNCHANGED <<source, texts, hasAnswer, fullAnswer, rewriteQuery,
                   toolCallCount, hasError, fullRelated>>
    /\ UNCHANGED producerVars /\ UNCHANGED laterVars

\* const fetchedImages = await imageFetchPromise; images = [...]; streamResponse
AwaitImages ==
    /\ pc = "awaitImages" /\ imgState # "pending"
    /\ IF imgState = "resolved"
          THEN /\ images' = images \o HttpsImages(SearchImages)
               /\ \E ok \in BOOLEAN :
                     IF ok THEN /\ log' = Append(log, ImagesPayload(images'))
                                /\ pc' = "awaitVideos"
                           ELSE /\ pc' = "catch"
                                /\ UNCHANGED log
          ELSE /\ pc' = "catch"
               /\ UNCHANGED <<images, log>>
    /\ UNCHANGED <<source, texts, videos, hasAnswer, fullAnswer, rewriteQuery,
                   toolCallCount, hasError, fullRelated>>
    /\ UNCHANGED producerVars /\ UNCHANGED laterVars

\* const fetchedVideos = await videoFetchPromise; videos = ...; streamResponse
AwaitVideos ==
    /\ pc = "awaitVideos" /\ vidState # "pending"
    /\ IF vidState = "resolved"
          THEN /\ videos' = FirstVideos(SearchVideos)
               /\ \E ok \in BOOLEAN :
                     IF ok THEN /\ log' = Append(log, VideosPayload(videos'))
                                /\ pc' = "persist"
                           ELSE /\ pc' = "catch"
                                /\ UNCHANGED log
          ELSE /\ pc' = "catch"
               /\ UNCHANGED <<videos, log>>
    /\ UNCHANGED <<source, texts, images, hasAnswer, fullAnswer, rewriteQuery,
                   toolCallCount, hasError, fullRelated>>
    /\ UNCHANGED producerVars /\ UNCHANGED laterVars

\* ------------------------------------------------ lines 188-193: persistence
\* incSearchCount(userId).catch(...) is started and not awaited; then
\* await saveMessages(userId, messages, fullAnswer, texts, images, videos, fullRelated)
Persist ==
    /\ pc = "persist"
    /\ log' = log \o <<Call("incSearchCount", "", <<>>), Call("saveMessages", "", texts)>>
    /\ saved' = Append(saved, [fullAnswer |-> fullAnswer, texts |-> texts,
                               images |-> images, videos |-> videos,
                               fullRelated |-> fullRelated])
    /\ \E ok \in BOOLEAN : pc' = IF ok THEN "saved" ELSE "catch"
    /\ UNCHANGED <<source, texts, images, videos, hasAnswer, fullAnswer, rewriteQuery,
                   toolCallCount, hasError, fullRelated>>
    /\ UNCHANGED <<source0, imgState, vidState, settled, dChunks, rChunks>>
    /\ UNCHANGED producerVars

\* a variant that streams the videos payload only after persistence
CompleteStreamsVideosLate ==
    /\ pc = "saved"
    /\ log' = log \o <<VideosPayload(videos), DoneSignal>>
    /\ pc' = "returned"
    /\ UNCHANGED <<source, texts, images, videos, hasAnswer, fullAnswer, rewriteQuery,
                   toolCallCount, hasError, fullRelated>>
    /\ UNCHANGED producerVars /\ UNCHANGED laterVars

\* line 193: onStream?.(null, true)
Complete ==
    /\ pc = "saved"
    /\ log' = Append(log, DoneSignal)
    /\ pc' = "returned"
    /\ UNCHANGED <<source, texts, images, videos, hasAnswer, fullAnswer, rewriteQuery,
                   toolCallCount, hasError, fullRelated>>
    /\ UNCHANGED producerVars /\ UNCHANGED laterVars

\* a variant whose handler retries the turn
CatchRetries ==
    /\ pc = "catch"
    /\ log' = Append(log, Call("logError", "catch", <<>>))
    /\ pc' = "start"
    /\ UNCHANGED <<source, texts, images, videos, hasAnswer, fullAnswer, rewriteQuery,
                   toolCallCount, hasError, fullRelated>>
    /\ UNCHANGED producerVars /\ UNCHANGED laterVars

\* lines 194-197: catch (error) { logError(error, ...); onStream?.(null, true) }
Catch ==
    /\ pc = "catch"
    /\ log' = log \o <<Call("logError", "catch", <<>>), DoneSignal>>
    /\ pc' = "returned"
    /\ UNCHANGED <<source, texts, images, videos, hasAnswer, fullAnswer, rewriteQuery,
                   toolCallCount, hasError, fullRelated>>
    /\ UNCHANGED producerVars /\ UNCHANGED laterVars

Next ==
    \/ StreamTextCall
    \/ ModelEmitsText
    \/ ModelCallsGetInformation
    \/ ModelCallsAccessWebPage
    \/ ModelEmitsError
    \/ ToolExecutionFinishes
    \/ StreamCloses
    \/ ConsumeEvent
    \/ StreamEnds
    \/ StreamThrows
    \/ AfterStream
    \/ StartSearches
    \/ NoToolBranch
    \/ ImageSearchSettles
    \/ VideoSearchSettles
    \/ ClearAndCallDirectlyAnswer
    \/ DirectlyAnswerChunk
    \/ DirectlyAnswerError
    \/ DirectlyAnswerReturns
    \/ DirectlyAnswerThrows
    \/ RelatedStatusAndCall
    \/ RelatedChunk
    \/ RelatedReturns
    \/ RelatedThrows
    \/ AwaitImages
    \/ AwaitVideos
    \/ Persist
    \/ Complete
    \/ Catch

Spec == Init /\ [][Next]_vars

\* Every collaborator returns or throws and every promise settles: no step
\* that is enabled is postponed forever.
FairSpec == Spec /\ WF_vars(Next)

\* ====================================================== properties ========
\* ------------------------------------------------- reading the history
Idx == 1..Len(log)
IsCallback(e) == e.k \in CallbackKinds
IsCall(e, name) == e.k = "call" /\ e.v = name
IsRet(e, name)  == e.k = "ret" /\ e.v = name
CallIdx(name) == {i \in Idx : IsCall(log[i], name)}
RetIdx(name)  == {i \in Idx : IsRet(log[i], name)}
KindIdx(k)    == {i \in Idx : log[i].k = k}
Called(name)  == CallIdx(name) # {}
\* the exception handler of lines 194-197 has run
CaughtIdx == {i \in Idx : IsCall(log[i], "logError") /\ log[i].arg = "catch"}

\* C1: whenever an exception was caught by the top-level catch, the error is
\* forwarded to the callback as a JSON error payload before the invocation ends.
C1_CaughtErrorIsForwarded ==
    pc = "returned" =>
        \A i \in CaughtIdx : \E j \in KindIdx("error") : j > i

\* C2: once an error has been reported to the callback, no later step of the
\* turn runs: no answer chunk, no directlyAnswer, no getRelatedQuestions, no
\* images / videos payload, no saveMessages and no incSearchCount follow it.
LaterStep(e) ==
    \/ e.k \in {"answer", "related", "images", "videos"}
    \/ /\ e.k = "call"
       /\ e.v \in {"directlyAnswer", "getRelatedQuestions", "saveMessages", "incSearchCount"}

C2_NoStepAfterReportedError ==
    \A i \in KindIdx("error") : \A j \in Idx : j > i => ~LaterStep(log[j])

\* C3: saveMessages is called at most once; when it is called the model
\* stream has been fully consumed, directlyAnswer (if it was called) and
\* getRelatedQuestions have returned, every images / videos payload has been
\* streamed, and the only callback invocation after it is the completion signal.
C3_SaveMessagesLastStep ==
    /\ Cardinality(CallIdx("saveMessages")) <= 1
    /\ Len(saved) = Cardinality(CallIdx("saveMessages"))
    /\ \A s \in CallIdx("saveMessages") :
          /\ \E i \in RetIdx("fullStream") : i < s
          /\ \A i \in KindIdx("event") : i < s
          /\ \A c \in CallIdx("directlyAnswer") :
                c < s /\ \E r \in RetIdx("directlyAnswer") : c < r /\ r < s
          /\ \E c \in CallIdx("getRelatedQuestions") :
                c < s /\ \E r \in RetIdx("getRelatedQuestions") : c < r /\ r < s
          /\ \A i \in KindIdx("images") \cup KindIdx("videos") : i < s
          /\ \A j \in Idx : (j > s /\ IsCallback(log[j])) => log[j] = DoneSignal
          /\ Cardinality({j \in Idx : j > s /\ IsCallback(log[j])})
                 = (IF pc = "returned" THEN 1 ELSE 0)

\* C3 witness: a turn with tools was persisted and completed
C3_Witness ==
    /\ pc = "returned" /\ Len(saved) = 1 /\ toolCallCount > 0
    /\ KindIdx("images") # {} /\ KindIdx("videos") # {}
    /\ log[Len(log)] = DoneSignal

\* C4: the search category a getInformation execution passes to
\* searchRelevantContent is the value the caller passed to autoAnswer.
C4_SearchUsesCallerSource ==
    \A s \in searchSources : s = source0

\* C5: the callbacks of the tool path do not depend on which search completes
\* first: both searches are started before directlyAnswer is called, their
\* results are streamed only after getRelatedQuestions has returned, images
\* before videos, and a persisted turn's callbacks from the clear payload on are
\* clear status, answer chunks, 'Generating related questions ...' status,
\* related chunks, images payload, videos payload, completion signal.
Callbacks(from) ==
    SelectSeq(SubSeq(log, from, Len(log)), IsCallback)
ChunkPayloads(str, P(_)) == [i \in 1..Len(str) |-> P(<<str[i]>>)]
ClearIdx == {i \in KindIdx("status") : log[i].clear}
ExpectedToolPathCallbacks ==
    <<StatusPayload("Answering ...", TRUE)>>
    \o ChunkPayloads(fullAnswer, AnswerPayload)
    \o <<StatusPayload("Generating related questions ...", FALSE)>>
    \o ChunkPayloads(fullRelated, RelatedPayload)
    \o <<ImagesPayload(images), VideosPayload(videos), DoneSignal>>

C5_CallbackOrderIndependentOfSearchCompletion ==
    /\ \A d \in CallIdx("directlyAnswer") :
          /\ \E i \in CallIdx("imageSearch") : i < d
          /\ \E v \in CallIdx("videoSearch") : v < d
    /\ \A p \in KindIdx("images") \cup KindIdx("videos") :
          \E r \in RetIdx("getRelatedQuestions") : r < p
    /\ \A p \in KindIdx("videos") : \E q \in KindIdx("images") : q < p
    /\ (pc = "returned" /\ Len(saved) = 1 /\ toolCallCount > 0) =>
          \A c \in ClearIdx : Callbacks(c) = ExpectedToolPathCallbacks

\* C5 witness: a persisted tool turn in which the video search completed first
C5_Witness ==
    /\ pc = "returned" /\ Len(saved) = 1 /\ toolCallCount > 0
    /\ settled = <<"video", "image">>
    /\ fullAnswer # <<>> /\ fullRelated # <<>>

\* C6: before saveMessages is called, an image search and a video search have
\* been issued and an images and a videos payload have been streamed, whether
\* or not the model invoked a tool.
MediaFetchedBefore(s) ==
    /\ \E i \in CallIdx("imageSearch") : i < s
    /\ \E i \in CallIdx("videoSearch") : i < s
    /\ \E i \in KindIdx("images") : i < s
    /\ \E i \in KindIdx("videos") : i < s

C6_PersistedTurnFetchedMedia ==
    \A s \in CallIdx("saveMessages") : MediaFetchedBefore(s)

\* C6 as amended: a turn in which the model invoked at least one tool has
\* issued both searches and streamed both payloads before saveMessages is
\* called; a turn without tool calls reaches saveMessages without any image
\* or video search and without an images or videos payload.
C6_PersistedToolTurnFetchedMedia ==
    \A s \in CallIdx("saveMessages") :
        IF toolCallCount > 0
           THEN MediaFetchedBefore(s)
           ELSE /\ CallIdx("imageSearch") \cup CallIdx("videoSearch") = {}
                /\ KindIdx("images") \cup KindIdx("videos") = {}

\* C6 witness: a turn with a tool call reached saveMessages
C6_Witness ==
    /\ Called("saveMessages") /\ toolCallCount > 0
    /\ KindIdx("images") # {} /\ KindIdx("videos") # {}

\* C7: streamText, directlyAnswer, getRelatedQuestions, the image search, the
\* video search, incSearchCount and saveMessages are each invoked at most once
\* in an invocation, also when an error was reported or thrown.
OnceOnly == {"streamText", "directlyAnswer", "getRelatedQuestions", "imageSearch",
             "videoSearch", "incSearchCount", "saveMessages"}

C7_NoStepRunsTwice ==
    LET calls == {i \in Idx : log[i].k = "call" /\ log[i].v \in OnceOnly}
    IN  \A i, j \in calls : log[i].v = log[j].v => i = j

\* C7 witness: an exception was thrown after an error had been reported and
\* the helpers had been called
C7_Witness ==
    /\ pc = "returned" /\ hasError /\ CaughtIdx # {}
    /\ Called("getRelatedQuestions") /\ Called("saveMessages")

\* C8: the completion signal is sent exactly once per invocation and it is the
\* last callback invocation: nothing is sent to the callback after it.
C8_CompletionSignalOnceAndLast ==
    /\ \A i \in KindIdx("done") : \A j \in Idx : j > i => ~IsCallback(log[j])
    /\ pc = "returned" => Cardinality(KindIdx("done")) = 1

\* C9: every invocation whose collaborators all return or throw returns, and
\* has sent the completion signal at least once when it does.
C9_CompletionSignalEventuallySent ==
    <>(pc = "returned" /\ KindIdx("done") # {})

\* C9 witness: the early return after directlyAnswer reported an error
C9_Witness ==
    /\ pc = "returned" /\ hasError /\ CaughtIdx = {}
    /\ Called("directlyAnswer") /\ ~Called("getRelatedQuestions")
    /\ RetIdx("directlyAnswer") # {}
    /\ log[Len(log) - 1] = DoneSignal

\* C10: while the stream is read, every text delta with non-empty text
\* produces exactly one answer payload carrying it, in stream order; 'Answering
\* ...' is sent at most once, immediately before the first answer payload; an
\* empty text delta produces no callback; every tool call produces exactly one
\* 'Searching ...' payload, so their number equals toolCallCount.
StreamLog ==
    IF RetIdx("fullStream") = {} THEN log
    ELSE SubSeq(log, 1, (CHOOSE i \in RetIdx("fullStream") : TRUE))
IsTextEvent(e) == e.k = "event" /\ e.v = "text-delta" /\ e.text # <<>>
IsEmptyTextEvent(e) == e.k = "event" /\ e.v = "text-delta" /\ e.text = <<>>
IsToolCallEvent(e) == e.k = "event" /\ e.v = "tool-call"
TextOf(seq) == [i \in 1..Len(seq) |-> seq[i].text]
Searching == StatusPayload("Searching ...", FALSE)
Answering == StatusPayload("Answering ...", FALSE)

C10_StreamEventsForwardedInOrder ==
    LET sl == StreamLog
        n == Len(sl)
        answerIdx == {i \in 1..n : sl[i].k = "answer"}
        First(i) == \A j \in answerIdx : j >= i
    IN
    /\ TextOf(SelectSeq(sl, LAMBDA e : e.k = "answer")) = TextOf(SelectSeq(sl, IsTextEvent))
    /\ \A i \in 1..n :
          LET e == sl[i] IN
          /\ IsTextEvent(e) =>
                IF First(i)
                   THEN /\ i + 2 <= n
                        /\ sl[i + 1] = Answering
                        /\ sl[i + 2] = AnswerPayload(e.text)
                   ELSE /\ i + 1 <= n
                        /\ sl[i + 1] = AnswerPayload(e.text)
          /\ IsEmptyTextEvent(e) => (i < n => ~IsCallback(sl[i + 1]))
          /\ IsToolCallEvent(e) => (i + 1 <= n /\ sl[i + 1] = Searching)
          /\ e = Answering => (i + 1 <= n /\ sl[i + 1].k = "answer" /\ First(i + 1))
          /\ e = Searching => (i > 1 /\ IsToolCallEvent(sl[i - 1]))
    /\ Cardinality({i \in 1..n : sl[i] = Answering}) <= 1
    /\ Cardinality({i \in 1..n : sl[i] = Searching}) = toolCallCount
    /\ Cardinality({i \in 1..n : IsToolCallEvent(sl[i])}) = toolCallCount

\* C10 witness: two different non-empty text deltas were read, in this order
C10_Witness ==
    /\ TextOf(SelectSeq(StreamLog, IsTextEvent)) = << <<"a">>, <<"b">> >>
    /\ pc = "afterStream"

\* C11: without a 'tool-call' event directlyAnswer is never called, no payload
\* with clear:true is sent and no image / video search is issued; with at least
\* one, the payload {status: 'Answering ...', clear: true} is sent before
\* directlyAnswer is called and before every answer chunk of the second pass,
\* and directlyAnswer receives the texts accumulated from all tool results.
IsToolResultEvent(e) == e.k = "event" /\ e.v = "tool-result"
RECURSIVE Flatten(_)
Flatten(seq) == IF seq = <<>> THEN <<>> ELSE Head(seq).list \o Flatten(Tail(seq))
\* the texts of all tool results read so far, in stream order
ToolResultTexts == Flatten(SelectSeq(log, IsToolResultEvent))
ClearPayload == StatusPayload("Answering ...", TRUE)

C11_ToolUseDecidesAnswerPath ==
    LET direct == CallIdx("directlyAnswer")
        clears == {i \in Idx : log[i].k = "status" /\ log[i].clear}
        ends   == RetIdx("fullStream")
    IN
    /\ toolCallCount = 0 =>
          /\ direct = {} /\ clears = {}
          /\ CallIdx("imageSearch") \cup CallIdx("videoSearch") = {}
    /\ \A d \in direct :
          /\ toolCallCount > 0
          /\ d > 1 /\ log[d - 1] = ClearPayload
          /\ log[d].list = ToolResultTexts
          /\ \A a \in KindIdx("answer") : (\E e \in ends : e < a) => d < a
    /\ \A c \in clears : log[c] = ClearPayload /\ c + 1 \in direct
    /\ (pc \in {"relating", "persist", "saved"} /\ toolCallCount = 0) => direct = {}
    /\ (pc \in {"awaitImages", "awaitVideos"} \/ (pc \in {"persist", "saved"} /\ toolCallCount > 0))
          => direct # {}

\* C11 witness: two tool results were read and directlyAnswer was called
C11_Witness ==
    /\ Called("directlyAnswer") /\ toolCallCount > 0
    /\ Len(ToolResultTexts) = 2
    /\ KindIdx("answer") # {}

\* C12: whenever saveMessages is called, its answer argument is the
\* concatenation, in order, of the answer chunks sent to the callback since the
\* last payload with clear:true (since the start of the turn if there is none),
\* and its related argument is the concatenation of all related chunks sent.
RECURSIVE ConcatText(_)
ConcatText(seq) == IF seq = <<>> THEN <<>> ELSE Head(seq).text \o ConcatText(Tail(seq))
\* what the client shows as the answer: the chunks after the last clear
ShownAnswer(upto) ==
    LET clears == {i \in 1..upto : log[i].k = "status" /\ log[i].clear}
        from   == IF clears = {} THEN 0
                  ELSE CHOOSE c \in clears : \A o \in clears : o <= c
        kept   == [i \in 1..(upto - from) |-> log[from + i]]
    IN  ConcatText(SelectSeq(kept, LAMBDA e : e.k = "answer"))
ShownRelated(upto) ==
    ConcatText(SelectSeq(SubSeq(log, 1, upto), LAMBDA e : e.k = "related"))

C12_SavedTranscriptIsWhatWasShown ==
    \A s \in CallIdx("saveMessages") :
        /\ Len(saved) = 1
        /\ saved[1].fullAnswer = ShownAnswer(s)
        /\ saved[1].fullRelated = ShownRelated(s)

\* C12 witness: a first-pass text delta was discarded by the clear payload and
\* the second pass was persisted
C12_Witness ==
    /\ Len(saved) = 1 /\ toolCallCount > 0
    /\ \E i \in KindIdx("answer") : \E c \in ClearIdx : i < c
    /\ saved[1].fullAnswer # <<>> /\ saved[1].fullRelated # <<>>

\* C13: the image search and the video search use the same query: the
\* 'question' of the last getInformation tool-result when the stream contained
\* exactly one 'tool-call' event and that call produced a getInformation
\* result, and the user's query in every other case in which a search is issued.
IsGetInformationResult(e) == IsToolResultEvent(e) /\ e.arg = "getInformation"
ExpectedSearchQuery ==
    LET calls   == {i \in Idx : IsToolCallEvent(log[i])}
        results == {i \in Idx : IsGetInformationResult(log[i])}
    IN  IF Cardinality(calls) = 1 /\ results # {}
           THEN log[CHOOSE r \in results : \A o \in results : o <= r].question
           ELSE Query

C13_SearchQuery ==
    /\ \A i \in CallIdx("imageSearch") \cup CallIdx("videoSearch") :
          log[i].arg = ExpectedSearchQuery
    /\ \A v \in CallIdx("videoSearch") : v > 1 /\ IsCall(log[v - 1], "imageSearch")

\* C13 witness: a single getInformation call returned and both searches were
\* issued with its question
C13_Witness ==
    /\ toolCallCount = 1
    /\ \E i \in Idx : IsGetInformationResult(log[i])
    /\ \E i \in CallIdx("videoSearch") : log[i].arg \in Questions
    /\ Query \notin Questions

\* C14: the text sources handed to directlyAnswer, getRelatedQuestions and
\* saveMessages are exactly the texts of all tool-result events, in stream
\* order; the payload {sources, status: 'Thinking ...'} carries that list, is
\* streamed if and only if the stream contained more than one 'tool-call'
\* event, after the stream ended and before the clear payload.
C14_TextSources ==
    LET all     == ToolResultTexts
        sources == KindIdx("sources")
        ends    == RetIdx("fullStream")
        \* the turn has passed lines 124-127
        passed  == \/ pc = "branch"
                   \/ CallIdx("imageSearch") \cup CallIdx("getRelatedQuestions") # {}
    IN
    /\ \A i \in CallIdx("directlyAnswer") \cup CallIdx("getRelatedQuestions")
                \cup CallIdx("saveMessages") : log[i].list = all
    /\ \A i \in 1..Len(saved) : saved[i].texts = all
    /\ \A i \in sources :
          /\ log[i] = SourcesPayload(all)
          /\ toolCallCount > 1
          /\ \E e \in ends : e < i
          /\ \A c \in ClearIdx : i < c
    /\ Cardinality(sources) <= 1
    /\ passed => (sources # {} <=> toolCallCount > 1)

\* C14 witness: an accessWebPage and a getInformation result were read, the
\* sources payload was streamed and the turn was persisted
C14_Witness ==
    /\ Len(saved) = 1 /\ Len(saved[1].texts) = 2
    /\ KindIdx("sources") # {}
    /\ \E i, j \in Idx : /\ IsGetInformationResult(log[i])
                         /\ IsToolResultEvent(log[j]) /\ log[j].arg = "accessWebPage"

====
